---- MODULE Spec2Model ----
(***************************************************************************)
(* Barnes-Hut quadtree of hhenu/nbody_sim (src/quadtree.py): the recursive *)
(* Node construction, QuadTree.__init__ and QuadTree.step_forward.         *)
(*                                                                         *)
(* Numbers.  Body coordinates and masses are small integers.  The root     *)
(* half-extent is dist = sqrt(rsq) with rsq the largest squared distance   *)
(* of a body from the origin, so it is irrational in general; a node's     *)
(* extent is kept exactly as [rsq, lvl], standing for sqrt(rsq) / 2^lvl,   *)
(* and a node's centre as an integer pair in units of its own extent.      *)
(* Centres of mass are exact rationals <<x, y, d>> standing for (x/d, y/d).*)
(* Every comparison the code makes is decided exactly on these forms.      *)
(***************************************************************************)
EXTENDS Integers, Sequences, FiniteSets, TLC

VARIABLES
    pc,        \* where the program is: "new", "ready", "update", "aborted" for a
               \* QuadTree; "node", "built", "probed" and "quadrant" for Node and
               \* _find_quadrant run on their own
    bodies,    \* self.bodies: sequence of [m, pos], pos the body's current position
    limit,     \* self.limit as a rational <<num, den>>
    inplace,   \* whether Body.update mutates the pos array in place
    tree,      \* the Node objects reachable from self.root, keyed by path
    built,     \* the positions the bodies had when the tree was constructed
    n,         \* number of step_forward calls completed
    cur,       \* index of the body the running step_forward call treats next
    visits,    \* nodes popped by the traversal of body cur, in order
    accepted,  \* nodes whose total_mass was added to acc for body cur
    descents,  \* nodes whose children were pushed for body cur
    arg_b,     \* b_pos of the _find_quadrant call made on its own
    arg_q,     \* q_pos of that call
    ret        \* what the call returned ("none" before it)

vars == <<pc, bodies, limit, inplace, tree, built, n, cur, visits, accepted,
          descents, arg_b, arg_q, ret>>

----------------------------------------------------------------------------
(* Bounds of the model *)

\* largest body coordinate
MaxCoord == 1

\* largest number of bodies
MaxBodies == 2

\* the heavier of the two body masses
MaxMass == 2

\* number of step_forward calls followed
MaxSteps == 2

\* depth of the Node recursion at which the interpreter's recursion limit is
\* taken to be hit; on these grids a construction that ends has at most four
\* levels below the root
RecursionLimit == 6

\* largest significand of a double handed to _find_quadrant on its own
MaxMag == 2

\* binary orders of magnitude between the scales of those doubles: a double
\* is a significand times 2^-ScaleGap, 1 or 2^ScaleGap (about 1e-18, 1, 1e18)
ScaleGap == 60

(* Program constant: the default of the limit parameter *)
DefaultLimit == 5

\* body coordinates: the grid around the origin, from -1 up to MaxCoord
Coords == (0 - 1)..MaxCoord

Points == Coords \X Coords

\* body masses: the unit mass and a heavier one
Masses == {1, MaxMass}

Limits == {<<1, 2>>, <<1, 1>>, <<DefaultLimit, 1>>}

----------------------------------------------------------------------------
(* Arithmetic helpers *)

Abs(x) == IF x < 0 THEN 0 - x ELSE x

RECURSIVE Pow2(_)
Pow2(k) == IF k = 0 THEN 1 ELSE 2 * Pow2(k - 1)

\* the signed square z*|z|: strictly increasing, so it decides comparisons of
\* numbers of the form p*sqrt(N)
SqS(z) == z * Abs(z)

RECURSIVE SumSeq(_)
SumSeq(s) == IF s = <<>> THEN 0 ELSE Head(s) + SumSeq(Tail(s))

IsPow2(k) == \E e \in 0..k : Pow2(e) = k

Max(S) == CHOOSE x \in S : \A y \in S : y <= x

\* squared length of a vector (misc.vector_len is its square root)
VectorLenSq(v) == v[1] * v[1] + v[2] * v[2]

----------------------------------------------------------------------------
(* IEEE doubles as sign, significand and binary exponent: (-1)^neg * mag *  *)
(* 2^exp, enough to tell -0.0 from 0.0 and a component that is lost in the  *)
(* rounding of an angle from one that is not                                *)

Scales == {0 - ScaleGap, 0, ScaleGap}

Floats == {f \in [neg : BOOLEAN, mag : 0..MaxMag, exp : Scales] :
              f.mag = 0 => f.exp = 0}

\* the signed significand
FVal(f) == IF f.neg THEN 0 - f.mag ELSE f.mag

\* a - b, rounded to nearest.  Operands of different scale: the smaller is
\* below half a unit in the last place of the larger (53-bit significands),
\* so the result is the larger one, negated when it is b.  Otherwise the
\* difference is exact; an exact zero difference is +0.0 except
\* (-0.0) - (+0.0) = -0.0.
FSub(a, b) ==
    IF a.mag # 0 /\ b.mag # 0 /\ a.exp # b.exp
    THEN IF a.exp > b.exp THEN a ELSE [b EXCEPT !.neg = ~b.neg]
    ELSE LET r == FVal(a) - FVal(b)
         IN  IF r # 0
             THEN [neg |-> r < 0, mag |-> Abs(r),
                   exp |-> IF a.mag # 0 THEN a.exp ELSE b.exp]
             ELSE [neg |-> a.neg /\ a.mag = 0 /\ ~b.neg, mag |-> 0, exp |-> 0]

\* sign class of a double: 2 positive, 1 is +0.0, -1 is -0.0, -2 negative
FClass(f) == IF f.mag = 0 THEN (IF f.neg THEN 0 - 1 ELSE 1)
             ELSE (IF f.neg THEN 0 - 2 ELSE 2)

\* which of two nonzero doubles is lost next to the other when the angle of
\* (x, y) is rounded to a double: -1 when |y / x| is below the rounding error
\* of the angle (under 2^-55), 1 when |x / y| is, 0 when neither is.  Two
\* doubles of different scale are a factor 2^ScaleGap / (2 * MaxMag) apart at
\* least, two of the same scale a factor 2 * MaxMag at most.
FRel(y, x) ==
    IF y.mag = 0 \/ x.mag = 0 \/ y.exp = x.exp THEN 0
    ELSE IF y.exp < x.exp THEN 0 - 1 ELSE 1

\* sign class of a - p*sqrt(rsq)/2^lvl for an integer a (a body coordinate,
\* whose zero is +0.0) and a node-centre coordinate p in units of the extent
NodeClass(a, p, w) ==
    LET l == SqS(a * Pow2(w.lvl))
        r == SqS(p) * w.rsq
    IN  IF l > r THEN 2 ELSE IF l < r THEN 0 - 2 ELSE 1

----------------------------------------------------------------------------
(* Node._find_quadrant *)

\* np.arctan2(y, x), the angle rounded to a double, placed among the values
\* it is compared with: -4 is the double -pi, -2 is -pi/2, 0 is 0.0 or -0.0,
\* 2 is pi/2, 4 is pi, odd values are strictly between.  y and x are sign
\* classes, rel tells which of them is lost in the rounding: with x < 0 and y
\* lost the angle is pi or -pi itself, with x lost it is pi/2 or -pi/2
\* itself; with x > 0 and y lost it is a tiny nonzero double of y's sign.
Arctan2(y, x, rel) ==
    IF y = 2
    THEN (IF x = 2 THEN (IF rel = 1 THEN 2 ELSE 1)
          ELSE IF x = 0 - 2
          THEN (IF rel = 1 THEN 2 ELSE IF rel = 0 - 1 THEN 4 ELSE 3)
          ELSE 2)
    ELSE IF y = 0 - 2
    THEN (IF x = 2 THEN (IF rel = 1 THEN 0 - 2 ELSE 0 - 1)
          ELSE IF x = 0 - 2
          THEN (IF rel = 1 THEN 0 - 2 ELSE IF rel = 0 - 1 THEN 0 - 4 ELSE 0 - 3)
          ELSE 0 - 2)
    ELSE IF y = 1 THEN (IF x >= 1 THEN 0 ELSE 4)
    ELSE (IF x >= 1 THEN 0 ELSE 0 - 4)

\* the chain of range tests on the angle of vec = b_pos - q_pos, vec given as
\* <<class of x, class of y, rel>>; "quit" is the print-and-quit branch
find_quadrant(vec) ==
    LET direc == Arctan2(vec[2], vec[1], vec[3])
        pi2 == 2
        pi == 4
    IN  IF 0 < direc /\ direc <= pi2 THEN "NE"
        ELSE IF pi2 < direc /\ direc <= pi THEN "NW"
        ELSE IF 0 - pi2 < direc /\ direc <= 0 THEN "SW"
        ELSE IF 0 - pi < direc /\ direc <= 0 - pi2 THEN "SE"
        ELSE "quit"

\* vec = b_pos - q_pos for two arrays of doubles
VecFloat(b, q) ==
    LET x == FSub(b[1], q[1])
        y == FSub(b[2], q[2])
    IN  <<FClass(x), FClass(y), FRel(y, x)>>

\* vec = b.pos - self.pos for a body position and a node centre.  Down to
\* depth RecursionLimit neither component is lost next to the other: the
\* components are at most MaxCoord + sqrt(rsq), and a nonzero one, being
\* (a*2^lvl - p*sqrt(rsq)) / 2^lvl with integers a and p, is at least
\* 1 / (2^lvl * (|a|*2^lvl + |p|*sqrt(rsq))), far above 2^-55 times that.
VecNode(p, pos, w) ==
    <<NodeClass(p[1], pos[1], w), NodeClass(p[2], pos[2], w), 0>>

----------------------------------------------------------------------------
(* class Node *)

\* the keys of b_quads, in insertion order
Quads == <<"NW", "NE", "SW", "SE">>

BodyPos(i) == bodies[i].pos

\* Node._split_bodies: the bodies of the node grouped by quadrant, each group
\* in list order
split_bodies(pos, w, bl) ==
    [q \in {Quads[k] : k \in 1..4} |->
        SelectSeq(bl, LAMBDA i : find_quadrant(VecNode(BodyPos(i), pos, w)) = q)]

\* sum(b.m for b in bodies)
TotalMass(bl) == SumSeq([k \in 1..Len(bl) |-> bodies[bl[k]].m])

\* calc_cm with the masses left out of the weighted sum
calc_cm_unweighted(bl, total_mass) ==
    <<SumSeq([k \in 1..Len(bl) |-> BodyPos(bl[k])[1]]),
      SumSeq([k \in 1..Len(bl) |-> BodyPos(bl[k])[2]]),
      total_mass>>

\* Node._calc_cm: 1 / total_mass * sum(b.m * b.pos)
calc_cm(bl, total_mass) ==
    <<SumSeq([k \in 1..Len(bl) |-> bodies[bl[k]].m * BodyPos(bl[k])[1]]),
      SumSeq([k \in 1..Len(bl) |-> bodies[bl[k]].m * BodyPos(bl[k])[2]]),
      total_mass>>

\* the centre of the child in quadrant quad, in units of the child's extent
ChildPos(pos, quad) ==
    IF quad = "NW" THEN <<2 * pos[1] - 1, 2 * pos[2] + 1>>
    ELSE IF quad = "NE" THEN <<2 * pos[1] + 1, 2 * pos[2] + 1>>
    ELSE IF quad = "SW" THEN <<2 * pos[1] - 1, 2 * pos[2] - 1>>
    ELSE <<2 * pos[1] + 1, 2 * pos[2] - 1>>

NodeRec(path, pos, w, bl, cm, children, overflow) ==
    [id |-> path, pos |-> pos, w |-> w, h |-> w, bodies |-> bl, cm |-> cm,
     total_mass |-> TotalMass(bl), children |-> children, overflow |-> overflow]

RECURSIVE Node(_, _, _, _)

\* Node._create_node: the child Node of quadrant quad and all below it
create_node(path, pos, w, quad, bl) ==
    Node(Append(path, quad), ChildPos(pos, quad),
         [rsq |-> w.rsq, lvl |-> w.lvl + 1], bl)

\* Node._create_child_nodes, for a node of two or more bodies: one child per
\* key of b_quads
create_child_nodes(path, pos, w, bl) ==
    LET b_quads == split_bodies(pos, w, bl)
    IN  UNION {create_node(path, pos, w, Quads[k], b_quads[Quads[k]]) : k \in 1..4}

\* Node.__init__: the set of Node objects the call constructs.  A node that
\* must split at depth RecursionLimit stands for a construction that does not
\* return: the bodies stay together level after level until the interpreter
\* gives up (RecursionError) or, some fifty levels down, the rounded centre
\* makes an offset so small that the angle is -pi and _find_quadrant quits.
\* overflow is set and nothing below the node is built.
Node(path, pos, w, bl) ==
    IF bl = <<>> THEN {NodeRec(path, pos, w, bl, <<0, 0, 1>>, <<>>, FALSE)}
    ELSE IF Len(bl) = 1
    THEN {NodeRec(path, pos, w, bl, <<BodyPos(bl[1])[1], BodyPos(bl[1])[2], 1>>,
                  <<>>, FALSE)}
    ELSE IF w.lvl >= RecursionLimit
    THEN {NodeRec(path, pos, w, bl, <<0, 0, 1>>, <<>>, TRUE)}
    ELSE {NodeRec(path, pos, w, bl, calc_cm(bl, TotalMass(bl)),
                  [k \in 1..4 |-> Append(path, Quads[k])], FALSE)}
         \cup create_child_nodes(path, pos, w, bl)

----------------------------------------------------------------------------
(* class QuadTree *)

Root == <<>>

\* QuadTree.__init__: dist = max(vector_len(b.pos)), root Node at the origin
RootNodes ==
    LET rsq == Max({VectorLenSq(BodyPos(i)) : i \in 1..Len(bodies)})
    IN  Node(Root, <<0, 0>>, [rsq |-> rsq, lvl |-> 0],
             [i \in 1..Len(bodies) |-> i])

TreeOf(nodes) == [id \in {nd.id : nd \in nodes} |->
                    CHOOSE nd \in nodes : nd.id = id]

\* vec = node.cm - body.pos, as a numerator pair over node.cm[3]
VecTo(node, p) == <<node.cm[1] - node.cm[3] * p[1], node.cm[2] - node.cm[3] * p[2]>>

\* dist == 0
DistIsZero(node, p) == VectorLenSq(VecTo(node, p)) = 0

\* whether size / dist is computed without rounding error against lim: the
\* division by total_mass and the scaling by lim are exact for powers of two
Exact(node, lim) == IsPow2(node.cm[3]) /\ IsPow2(lim[1]) /\ IsPow2(lim[2])

\* the acceptance test with the comparison turned round: (size / dist) > limit
Accepts_reversed(node, p, lim, tie) ==
    LET lhs == node.w.rsq * lim[2] * lim[2] * node.cm[3] * node.cm[3]
        rhs == lim[1] * lim[1] * VectorLenSq(VecTo(node, p))
                 * Pow2(node.w.lvl) * Pow2(node.w.lvl)
    IN  lhs > rhs

\* (size / dist) < limit with size = mean((w, h)) and dist > 0, decided on
\* the squares: rsq / 4^lvl < (num/den)^2 * |vec|^2 / cm[3]^2.  When the two
\* sides are equal as real numbers and the doubles are rounded, the rounding
\* decides the test; tie says which way it went.
Accepts(node, p, lim, tie) ==
    LET lhs == node.w.rsq * lim[2] * lim[2] * node.cm[3] * node.cm[3]
        rhs == lim[1] * lim[1] * VectorLenSq(VecTo(node, p))
                 * Pow2(node.w.lvl) * Pow2(node.w.lvl)
    IN  lhs < rhs \/ (lhs = rhs /\ tie /\ ~Exact(node, lim))

\* the ways the rounded ties of a traversal under lim can go
Ties(lim) == IF \A id \in DOMAIN tree : Exact(tree[id], lim)
             THEN {FALSE} ELSE BOOLEAN

RECURSIVE Loop(_, _, _, _, _)
\* the while loop of step_forward for a body at p: stack is popped at its end;
\* out collects the popped, the accepted and the descended nodes
Loop(stack, p, lim, tie, out) ==
    IF stack = <<>> THEN out
    ELSE LET id == stack[Len(stack)]
             node == tree[id]
             rest == SubSeq(stack, 1, Len(stack) - 1)
             seen == [out EXCEPT !.visits = Append(@, id)]
         IN  IF DistIsZero(node, p) THEN Loop(rest, p, lim, tie, seen)
             ELSE IF Accepts(node, p, lim, tie)
             THEN Loop(rest, p, lim, tie, [seen EXCEPT !.accepted = Append(@, id)])
             ELSE Loop(rest \o node.children, p, lim, tie,
                       [seen EXCEPT !.descents = Append(@, id)])

\* one traversal from the root
Traverse(p, lim, tie) ==
    Loop(<<Root>>, p, lim, tie, [visits |-> <<>>, accepted |-> <<>>, descents |-> <<>>])

----------------------------------------------------------------------------
(* The program: a QuadTree is constructed once, then stepped *)

Bodies == UNION {[1..k -> [m : Masses, pos : Points]] : k \in 1..MaxBodies}

Init ==
    /\ pc = "new"
    /\ bodies \in Bodies
    /\ limit \in Limits
    /\ inplace \in BOOLEAN
    /\ tree = <<>>
    /\ built = <<>>
    /\ n = 0
    /\ cur = 1
    /\ visits = <<>>
    /\ accepted = <<>>
    /\ descents = <<>>
    /\ arg_b = <<>>
    /\ arg_q = <<>>
    /\ ret = "none"

\* QuadTree.__init__.  The construction either returns the tree or leaves
\* by RecursionError or quit without one: pc = "aborted".
Construct ==
    /\ pc = "new"
    /\ LET nodes == RootNodes
       IN  IF \E nd \in nodes : nd.overflow
           THEN pc' = "aborted" /\ tree' = <<>>
           ELSE pc' = "ready" /\ tree' = TreeOf(nodes)
    /\ built' = [i \in 1..Len(bodies) |-> BodyPos(i)]
    /\ UNCHANGED <<bodies, limit, inplace, n, cur, visits, accepted, descents,
                   arg_b, arg_q, ret>>

\* step_forward, loop body up to the end of the while loop, for body cur
Accumulate ==
    /\ pc = "ready"
    /\ n < MaxSteps
    /\ \E tie \in Ties(limit) :
          LET out == Traverse(BodyPos(cur), limit, tie)
          IN  /\ visits' = out.visits
              /\ accepted' = out.accepted
              /\ descents' = out.descents
    /\ pc' = "update"
    /\ UNCHANGED <<bodies, limit, inplace, tree, built, n, cur, arg_b, arg_q, ret>>

\* the positions Body.update can leave a body at
Moves(p) == {q \in Points : Abs(q[1] - p[1]) <= 1 /\ Abs(q[2] - p[2]) <= 1}

\* a one-body node holds the body's pos array itself as cm (cm = bodies[0].pos),
\* so an update in place shows through it; every other cm is a value
Aliased(i, q) ==
    [id \in DOMAIN tree |->
        IF inplace /\ tree[id].bodies = <<i>>
        THEN [tree[id] EXCEPT !.cm = <<q[1], q[2], 1>>]
        ELSE tree[id]]

\* step_forward, body.update(acc, dt, n) for body cur, and the loop's advance
Update ==
    /\ pc = "update"
    /\ \E q \in Moves(BodyPos(cur)) :
          /\ bodies' = [bodies EXCEPT ![cur].pos = q]
          /\ tree' = Aliased(cur, q)
    /\ IF cur = Len(bodies)
       THEN cur' = 1 /\ n' = n + 1
       ELSE cur' = cur + 1 /\ n' = n
    /\ pc' = "ready"
    /\ UNCHANGED <<limit, inplace, built, visits, accepted, descents,
                   arg_b, arg_q, ret>>

Next == Construct \/ Accumulate \/ Update

Spec == Init /\ [][Next]_vars

----------------------------------------------------------------------------
(* _find_quadrant on its own, over arrays of doubles *)

InitQuadrant ==
    /\ pc = "quadrant"
    /\ arg_b \in Floats \X Floats
    /\ arg_q \in Floats \X Floats
    /\ ret = "none"
    /\ bodies = <<>>
    /\ limit = <<DefaultLimit, 1>>
    /\ inplace = FALSE
    /\ tree = <<>>
    /\ built = <<>>
    /\ n = 0
    /\ cur = 1
    /\ visits = <<>>
    /\ accepted = <<>>
    /\ descents = <<>>

CallFindQuadrant ==
    /\ pc = "quadrant"
    /\ ret = "none"
    /\ ret' = find_quadrant(VecFloat(arg_b, arg_q))
    /\ UNCHANGED <<pc, bodies, limit, inplace, tree, built, n, cur, visits,
                   accepted, descents, arg_b, arg_q>>

NextQuadrant == CallFindQuadrant

SpecQuadrant == InitQuadrant /\ [][NextQuadrant]_vars

----------------------------------------------------------------------------
(* Node construction and the traversal loop as functions of their inputs:  *)
(* a Node tree is built from a list of bodies, then the loop of            *)
(* step_forward is run on it for one body under one limit.                 *)

InitTree ==
    /\ pc = "node"
    /\ bodies \in Bodies
    /\ limit = <<DefaultLimit, 1>>
    /\ inplace = FALSE
    /\ tree = <<>>
    /\ built = <<>>
    /\ n = 0
    /\ cur = 1
    /\ visits = <<>>
    /\ accepted = <<>>
    /\ descents = <<>>
    /\ arg_b = <<>>
    /\ arg_q = <<>>
    /\ ret = "none"

\* Node(pos=origin, w=dist, h=dist, bodies=bodies)
BuildNode ==
    /\ pc = "node"
    /\ LET nodes == RootNodes
       IN  IF \E nd \in nodes : nd.overflow
           THEN pc' = "aborted" /\ tree' = <<>>
           ELSE pc' = "built" /\ tree' = TreeOf(nodes)
    /\ built' = [i \in 1..Len(bodies) |-> BodyPos(i)]
    /\ UNCHANGED <<bodies, limit, inplace, n, cur, visits, accepted, descents,
                   arg_b, arg_q, ret>>

\* the while loop of step_forward for body i with self.limit = l
Probe ==
    /\ pc = "built"
    /\ \E i \in 1..Len(bodies), l \in Limits : \E tie \in Ties(l) :
          LET out == Traverse(BodyPos(i), l, tie)
          IN  /\ cur' = i
              /\ limit' = l
              /\ visits' = out.visits
              /\ accepted' = out.accepted
              /\ descents' = out.descents
    /\ pc' = "probed"
    /\ UNCHANGED <<bodies, inplace, tree, built, n, arg_b, arg_q, ret>>

NextNode == BuildNode

\* Node construction alone
SpecNode == InitTree /\ [][NextNode]_vars

NextTree == BuildNode \/ Probe

SpecTree == InitTree /\ [][NextTree]_vars

----------------------------------------------------------------------------
(* Properties *)

\* a tree has been constructed
HasTree == pc \in {"ready", "update", "built", "probed"}

Distinct == \A i, j \in 1..Len(built) : i # j => built[i] # built[j]

\* p lies in the closed square [pos - w, pos + w] x [pos - h, pos + h] of node
InsideNode(p, node) ==
    \A k \in 1..2 :
        /\ NodeClass(p[k], node.pos[k] - 1, node.w) >= 1
        /\ NodeClass(p[k], node.pos[k] + 1, node.w) <= 1

\* C1: in the constructed tree every body of a node's body list lies inside
\* the node's closed square region, at every depth (so that total_mass is the
\* mass spatially inside the quadrant).
C1_BodiesInsideQuadrant ==
    HasTree =>
        \A id \in DOMAIN tree :
            \A k \in 1..Len(tree[id].bodies) :
                InsideNode(built[tree[id].bodies[k]], tree[id])

\* the quadrants of node that received at least one body
Occupied(node) ==
    {c \in 1..Len(node.children) : tree[node.children[c]].bodies # <<>>}

\* C2: no Node with an empty body list is constructed, and a node of two or
\* more bodies has exactly one child per quadrant that received a body.
C2_NoEmptyNode ==
    HasTree =>
        \A id \in DOMAIN tree :
            /\ tree[id].bodies # <<>>
            /\ Len(tree[id].bodies) >= 2 =>
                   Len(tree[id].children) = Cardinality(Occupied(tree[id]))

\* C10: for pairwise distinct positions the construction returns a tree
\* (the recursion reaches one-body leaves).
C10_ConstructionTerminates ==
    (pc # "new" /\ Distinct) => pc # "aborted"

Range(seq) == {seq[k] : k \in 1..Len(seq)}

\* C3: self-exclusion: no node whose total_mass was added to the accumulator
\* of a body has that body in its body list, whatever the limit and the step.
C3_SelfExclusion ==
    pc = "update" =>
        \A k \in 1..Len(accepted) : cur \notin Range(tree[accepted[k]].bodies)

\* the tree QuadTree(...) constructs from the bodies' current positions
FreshTree ==
    LET nodes == RootNodes
    IN  IF \E nd \in nodes : nd.overflow THEN <<>> ELSE TreeOf(nodes)

\* C4: the tree a step traverses is the one constructed from the positions the
\* bodies have at the start of that step (stated where the first body of a
\* step has just been traversed, so the current positions are those).
C4_TreeRebuiltEveryStep ==
    (pc = "update" /\ cur = 1) => tree = FreshTree

\* C5: two bodies of equal mass m at (d, 0) and (-d, 0), root accepted at
\* once: the single contribution has source mass m at distance 2d and points
\* at the other body.
C5_TwoBodyScenario ==
    ( /\ pc = "update"
      /\ n = 0
      /\ Len(bodies) = 2
      /\ bodies[1].m = bodies[2].m
      /\ \E d \in 1..MaxCoord :
            \/ BodyPos(1) = <<d, 0>> /\ BodyPos(2) = <<0 - d, 0>>
            \/ BodyPos(1) = <<0 - d, 0>> /\ BodyPos(2) = <<d, 0>>
      /\ accepted = <<Root>> )
    => LET node == tree[Root]
           p == BodyPos(cur)
           q == BodyPos(3 - cur)
           vec == VecTo(node, p)
       IN  /\ node.total_mass = bodies[3 - cur].m
           /\ VectorLenSq(vec) = node.cm[3] * node.cm[3] * VectorLenSq(<<q[1] - p[1], q[2] - p[2]>>)
           /\ vec[1] * (q[1] - p[1]) > 0
           /\ vec[2] = 0

\* C6: for every body c at a position other than that of the body traversed,
\* exactly one accepted node has c in its body list.
C6_EveryOtherBodyOnce ==
    pc = "update" =>
        \A c \in 1..Len(bodies) :
            (c # cur /\ BodyPos(c) # BodyPos(cur)) =>
                Cardinality({k \in 1..Len(accepted) :
                                c \in Range(tree[accepted[k]].bodies)}) = 1

\* vec = b_pos - q_pos is a nonzero vector
NonZero(b, q) == FSub(b[1], q[1]).mag # 0 \/ FSub(b[2], q[2]).mag # 0

\* C7: for every nonzero offset vector _find_quadrant returns one of the four
\* quadrants, never the print-and-quit branch, with +x -> SW, +y -> NE,
\* -x -> NW, -y -> SE on the axes.
C7_QuadrantTotal ==
    (ret # "none" /\ NonZero(arg_b, arg_q)) =>
        LET x == FVal(FSub(arg_b[1], arg_q[1]))
            y == FVal(FSub(arg_b[2], arg_q[2]))
        IN  /\ ret \in {"NE", "NW", "SW", "SE"}
            /\ (y = 0 /\ x > 0) => ret = "SW"
            /\ (x = 0 /\ y > 0) => ret = "NE"
            /\ (y = 0 /\ x < 0) => ret = "NW"
            /\ (x = 0 /\ y < 0) => ret = "SE"

RECURSIVE Moment(_, _)
\* the sum over the bodies in S of m, or of m * pos[k] for k = 1, 2, taken
\* over the positions the tree was built from
Moment(S, k) ==
    IF S = {} THEN 0
    ELSE LET i == CHOOSE j \in S : TRUE
         IN  (IF k = 0 THEN bodies[i].m ELSE bodies[i].m * built[i][k])
             + Moment(S \ {i}, k)

\* C8: for every node built with at least one body, total_mass is the sum of
\* the masses of its bodies and cm * total_mass is the sum of m_i * p_i; a
\* node of exactly one body has cm equal to that body's position.
C8_CentreOfMass ==
    pc \in {"built", "probed"} =>
        \A id \in DOMAIN tree :
            LET node == tree[id]
                S == Range(node.bodies)
            IN  node.bodies # <<>> =>
                    /\ node.total_mass = Moment(S, 0)
                    /\ node.cm[3] > 0
                    /\ node.cm[1] * node.total_mass = node.cm[3] * Moment(S, 1)
                    /\ node.cm[2] * node.total_mass = node.cm[3] * Moment(S, 2)
                    /\ Len(node.bodies) = 1 =>
                           node.cm = <<built[node.bodies[1]][1],
                                       built[node.bodies[1]][2], 1>>

\* a tree whose root holds two bodies of different mass at different places,
\* each of them alone in a leaf
C8_Witness ==
    /\ pc = "built"
    /\ Len(bodies) = 2
    /\ bodies[1].m # bodies[2].m
    /\ built[1] # built[2]
    /\ tree[Root].cm[3] = bodies[1].m + bodies[2].m
    /\ \E id \in DOMAIN tree : tree[id].bodies = <<1>>
    /\ \E id \in DOMAIN tree : tree[id].bodies = <<2>>

LimLess(l1, l2) == l1[1] * l2[2] < l2[1] * l1[2]

\* C9: for the tree and the body of the traversal made, every larger limit
\* descends into no more nodes and pops only nodes this traversal popped, and
\* every smaller limit descends into no fewer and pops all of them.
C9_AcceptanceMonotone ==
    pc = "probed" =>
        \A l \in Limits \ {limit} : \A tie \in Ties(l) :
            LET other == Traverse(BodyPos(cur), l, tie)
            IN  /\ LimLess(limit, l) =>
                       /\ Len(other.descents) <= Len(descents)
                       /\ Range(other.visits) \subseteq Range(visits)
                /\ LimLess(l, limit) =>
                       /\ Len(descents) <= Len(other.descents)
                       /\ Range(visits) \subseteq Range(other.visits)

\* a traversal that descends, where a larger limit accepts the root at once
C9_Witness ==
    /\ pc = "probed"
    /\ Len(descents) >= 1
    /\ Len(visits) > 1
    /\ \E l \in Limits :
          /\ LimLess(limit, l)
          /\ Traverse(BodyPos(cur), l, FALSE).descents = <<>>
          /\ Traverse(BodyPos(cur), l, FALSE).accepted = <<Root>>

====
